---- MODULE Spec2Model ----
(***************************************************************************)
(* Model of the native linear-algebra extension of the classifier gem:     *)
(* Vector / Matrix primitives (vector.c, matrix.c), the Jacobi SVD solver  *)
(* (svd.c) and Brand's incremental SVD update with batch projection        *)
(* (incremental_svd.c).                                                    *)
(*                                                                         *)
(* A C double is modelled as a fixed-point number: the integer x stands    *)
(* for the real x / SCALE.  Sums are exact, products and quotients round   *)
(* to the nearest representable value, sqrt rounds down, and the IEEE      *)
(* specials NaN, +Inf and -Inf are three reserved integers.  A size_t is   *)
(* an unsigned integer modulo SIZE_MOD.                                    *)
(***************************************************************************)
EXTENDS Integers, Sequences, FiniteSets, TLC

(***************************************************************************)
(* Fixed-point doubles                                                     *)
(***************************************************************************)
\* 1.0 is SCALE: the resolution of the modelled doubles is 1 / SCALE.
SCALE == 1000

PInf == 2^30
NInf == -PInf
NaN == PInf + 1

IsNaN(x) == x = NaN
IsInf(x) == x = PInf \/ x = NInf
IsFinite(x) == NInf < x /\ x < PInf

Sign(x) == IF x > 0 THEN 1 ELSE IF x < 0 THEN -1 ELSE 0
Abs(x) == IF x < 0 THEN -x ELSE x

\* n / d for d > 0, rounded to the nearest integer (ties away from zero).
RoundDiv(n, d) ==
    IF n >= 0 THEN (n + (d \div 2)) \div d ELSE -((-n + (d \div 2)) \div d)

FNeg(a) == IF IsNaN(a) THEN NaN ELSE -a

FAdd(a, b) ==
    IF IsFinite(a) /\ IsFinite(b) THEN a + b
    ELSE IF IsNaN(a) \/ IsNaN(b) THEN NaN
    ELSE IF IsInf(a) /\ IsInf(b) THEN (IF a = b THEN a ELSE NaN)
    ELSE IF IsInf(a) THEN a
    ELSE b

FSub(a, b) ==
    IF IsFinite(a) /\ IsFinite(b) THEN a - b ELSE FAdd(a, FNeg(b))

FMul(a, b) ==
    IF IsFinite(a) /\ IsFinite(b) THEN RoundDiv(a * b, SCALE)
    ELSE IF IsNaN(a) \/ IsNaN(b) \/ a = 0 \/ b = 0 THEN NaN
    ELSE IF Sign(a) * Sign(b) > 0 THEN PInf
    ELSE NInf

FDiv(a, b) ==
    IF IsFinite(a) /\ IsFinite(b) /\ b # 0
    THEN Sign(b) * RoundDiv(a * SCALE, Abs(b))
    ELSE IF IsNaN(a) \/ IsNaN(b) THEN NaN
    ELSE IF IsInf(a) THEN (IF IsInf(b) THEN NaN
                           ELSE IF Sign(a) * Sign(b) >= 0 THEN PInf ELSE NInf)
    ELSE IF IsInf(b) THEN 0
    ELSE IF a = 0 THEN NaN
    ELSE IF a > 0 THEN PInf
    ELSE NInf

FAbs(a) == IF IsNaN(a) THEN NaN ELSE Abs(a)

\* Comparisons: every comparison with a NaN operand is false.
FGt(a, b) == ~IsNaN(a) /\ ~IsNaN(b) /\ a > b
FLt(a, b) == ~IsNaN(a) /\ ~IsNaN(b) /\ a < b
FGe(a, b) == ~IsNaN(a) /\ ~IsNaN(b) /\ a >= b
FLe(a, b) == ~IsNaN(a) /\ ~IsNaN(b) /\ a <= b

\* Largest r with r * r <= n, for 0 <= n < 2^31: Newton's iteration
\* x <- (x + n / x) / 2 in integers, from a start that is not below the root.
RECURSIVE ISqrtIter(_, _)
ISqrtIter(n, x) ==
    IF (x + n \div x) \div 2 >= x THEN x
    ELSE ISqrtIter(n, (x + n \div x) \div 2)

ISqrt(n) ==
    IF n = 0 THEN 0
    ELSE ISqrtIter(n, IF n < 2^8 THEN 2^4
                      ELSE IF n < 2^16 THEN 2^8
                      ELSE IF n < 2^24 THEN 2^12
                      ELSE 46341)

\* sqrt of a double: sqrt(x / SCALE) * SCALE = sqrt(x * SCALE).
FSqrt(x) ==
    IF IsNaN(x) \/ x < 0 THEN NaN
    ELSE IF x = PInf THEN PInf
    ELSE ISqrt(x * SCALE)

(***************************************************************************)
(* size_t arithmetic                                                       *)
(***************************************************************************)
\* size_t is unsigned and wraps.  The 64-bit width is modelled at 30 bits,
\* wide enough that no modelled size or count reaches it.
SIZE_MOD == 2^30

\* The value an integer expression has once it is stored in a size_t
\* (also the cast (size_t)x of a signed x).
SizeT(x) == x % SIZE_MOD

(***************************************************************************)
(* Results of calls that may raise                                         *)
(***************************************************************************)
Ok(v) == [ok |-> TRUE, val |-> v]
\* rb_raise(kind, format, args...) inside the function `where`: control
\* leaves it at once.  args are the values the message is formatted with.
RaiseWith(kind, where, args) ==
    [ok |-> FALSE, kind |-> kind, where |-> where, args |-> args]
\* rb_raise with a message that has no argument.
Raise(kind, where) == RaiseWith(kind, where, <<>>)

(***************************************************************************)
(* Buffers                                                                 *)
(***************************************************************************)
\* The contents of a buffer of n doubles after element x has been assigned
\* f[x], for x = 0 .. n-1: elements lo .. hi are those of the lower half
\* of the range followed by those of the upper half.
RECURSIVE BufferRange(_, _, _)
BufferRange(f, lo, hi) ==
    IF lo = hi THEN lo :> f[lo]
    ELSE BufferRange(f, lo, (lo + hi) \div 2)
         @@ BufferRange(f, (lo + hi) \div 2 + 1, hi)

Buffer(n, f) == IF n <= 0 THEN <<>> ELSE BufferRange(f, 0, n - 1)

(***************************************************************************)
(* vector.c                                                                *)
(***************************************************************************)
\* CVector: size, data[0 .. size-1], is_col (0 = row vector, 1 = column).
cvector_alloc(size) ==
    [size |-> size, data |-> Buffer(size, [i \in 0..(size - 1) |-> 0]), is_col |-> 0]

\* sum += terms[i] for i = 0 .. n-1, in index order, starting from `sum`.
RECURSIVE Accumulate(_, _, _, _)
Accumulate(terms, i, n, sum) ==
    IF i >= n THEN sum
    ELSE Accumulate(terms, i + 1, n, FAdd(sum, terms[i]))

\* The squares are accumulated exactly (at scale SCALE * SCALE), so the root
\* of the accumulator is already at scale SCALE: the norm is 0 only for the
\* zero vector, as it is for doubles short of underflow.
cvector_magnitude(v) ==
    IF \E i \in 0..(v.size - 1) : IsNaN(v.data[i]) THEN NaN
    ELSE IF \E i \in 0..(v.size - 1) : IsInf(v.data[i]) THEN PInf
    ELSE ISqrt(Accumulate([i \in 0..(v.size - 1) |-> v.data[i] * v.data[i]],
                          0, v.size, 0))

cvector_dot(a, b) ==
    IF a.size # b.size THEN Raise("ArgumentError", "cvector_dot")
    ELSE Ok(Accumulate([i \in 0..(a.size - 1) |-> FMul(a.data[i], b.data[i])],
                       0, a.size, 0))

(***************************************************************************)
(* matrix.c                                                                *)
(***************************************************************************)
\* CMatrix: rows, cols, data[0 .. rows*cols-1] in row-major order.
cmatrix_alloc(rows, cols) ==
    [rows |-> rows, cols |-> cols,
     data |-> Buffer(rows * cols, [x \in 0..(rows * cols - 1) |-> 0])]

\* MAT_AT(m, i, j) is m->data[i * m->cols + j].
MAT_AT(m, i, j) == m.data[i * m.cols + j]

\* Row and column of the element stored at offset x of an r x c matrix.
RowOf(x, cols) == x \div cols
ColOf(x, cols) == x % cols

cmatrix_transpose(m) ==
    [rows |-> m.cols, cols |-> m.rows,
     data |-> Buffer(m.cols * m.rows, [x \in 0..(m.cols * m.rows - 1) |->
                  MAT_AT(m, ColOf(x, m.rows), RowOf(x, m.rows))])]

cmatrix_multiply(a, b) ==
    IF a.cols # b.rows
    THEN RaiseWith("ArgumentError", "cmatrix_multiply",
                   <<a.rows, a.cols, b.rows, b.cols>>)
    ELSE Ok([rows |-> a.rows, cols |-> b.cols,
             data |-> Buffer(a.rows * b.cols, [x \in 0..(a.rows * b.cols - 1) |->
                 Accumulate([k \in 0..(a.cols - 1) |->
                                FMul(MAT_AT(a, RowOf(x, b.cols), k),
                                     MAT_AT(b, k, ColOf(x, b.cols)))],
                            0, a.cols, 0)])])

cmatrix_multiply_vector(m, v) ==
    IF m.cols # v.size
    THEN RaiseWith("ArgumentError", "cmatrix_multiply_vector", <<m.cols, v.size>>)
    ELSE Ok([size |-> m.rows, is_col |-> 0,
             data |-> Buffer(m.rows, [i \in 0..(m.rows - 1) |->
                 Accumulate([j \in 0..(m.cols - 1) |->
                                FMul(MAT_AT(m, i, j), v.data[j])],
                            0, m.cols, 0)])])

cmatrix_diagonal(v) ==
    [rows |-> v.size, cols |-> v.size,
     data |-> Buffer(v.size * v.size, [x \in 0..(v.size * v.size - 1) |->
                  IF RowOf(x, v.size) = ColOf(x, v.size)
                  THEN v.data[RowOf(x, v.size)] ELSE 0])]

(***************************************************************************)
(* svd.c                                                                   *)
(***************************************************************************)
SVD_MAX_SWEEPS == 20
\* 0.001
SVD_CONVERGENCE_THRESHOLD == SCALE \div 1000
\* CLASSIFIER_EPSILON is 1e-10, which lies strictly between the representable
\* values 0 and 1 / SCALE.  It is modelled by the representable value just
\* below it, so that for a representable x:  x > 1e-10 iff x > 0, and
\* x < 1e-10 iff x <= 0.
CLASSIFIER_EPSILON == 0
GtEpsilon(x) == FGt(x, CLASSIFIER_EPSILON)
LtEpsilon(x) == FLe(x, CLASSIFIER_EPSILON)

cmatrix_identity(n) ==
    [rows |-> n, cols |-> n,
     data |-> Buffer(n * n, [x \in 0..(n * n - 1) |->
                  IF RowOf(x, n) = ColOf(x, n) THEN SCALE ELSE 0])]

cmatrix_clone(m) ==
    [rows |-> m.rows, cols |-> m.cols,
     data |-> Buffer(m.rows * m.cols, [x \in 0..(m.rows * m.cols - 1) |-> m.data[x]])]

\* The column update "M = M * R" of columns p and r, rows 0 .. n-1.
RotateColumns(mat, n, p, r, cosine, sine) ==
    [mat EXCEPT !.data = Buffer(mat.rows * mat.cols, [x \in DOMAIN mat.data |->
        LET i == RowOf(x, mat.cols)
            j == ColOf(x, mat.cols)
        IN IF i < n /\ j = p
           THEN FSub(FMul(cosine, MAT_AT(mat, i, p)), FMul(sine, MAT_AT(mat, i, r)))
           ELSE IF i < n /\ j = r
           THEN FAdd(FMul(sine, MAT_AT(mat, i, p)), FMul(cosine, MAT_AT(mat, i, r)))
           ELSE mat.data[x]])]

\* The row update "M = R^T * M" of rows p and r, columns 0 .. n-1.
RotateRows(mat, n, p, r, cosine, sine) ==
    [mat EXCEPT !.data = Buffer(mat.rows * mat.cols, [x \in DOMAIN mat.data |->
        LET i == RowOf(x, mat.cols)
            j == ColOf(x, mat.cols)
        IN IF j < n /\ i = p
           THEN FSub(FMul(cosine, MAT_AT(mat, p, j)), FMul(sine, MAT_AT(mat, r, j)))
           ELSE IF j < n /\ i = r
           THEN FAdd(FMul(sine, MAT_AT(mat, p, j)), FMul(cosine, MAT_AT(mat, r, j)))
           ELSE mat.data[x]])]

\* Q = R^T * Q * R on rows/columns p, r; V = V * R on columns p, r.
\* The statements run in sequence: CHOOSE y \in {F(x) : x \in {e}} : TRUE is
\* F(e) with e computed before F is entered, here and below.
apply_jacobi_rotation(q, v, p, r, cosine, sine) ==
    [q |-> CHOOSE q_out \in
               {RotateRows(q_r, q.rows, p, r, cosine, sine) :
                    q_r \in {RotateColumns(q, q.rows, p, r, cosine, sine)}} : TRUE,
     v |-> RotateColumns(v, v.rows, p, r, cosine, sine)]

\* cos(pi / 4) = sin(pi / 4) = sqrt(1 / 2)
COS_PI_4 == FSqrt(SCALE \div 2)

\* cos and sin of atan(numerator / denominator) / 2 for denominator # 0.
\* With t = numerator / denominator and c2 = cos(atan t) = 1 / sqrt(1 + t^2)
\* = |denominator| / sqrt(numerator^2 + denominator^2), the half-angle
\* formulas give cos = sqrt((1 + c2) / 2) and |sin| = sqrt((1 - c2) / 2);
\* the angle has the sign of t.  An infinite t gives atan t = +-pi / 2 and
\* an infinite denominator alone gives t = 0.
Cos2Atan(numerator, denominator) ==
    RoundDiv(Abs(denominator) * SCALE,
             ISqrt(numerator * numerator + denominator * denominator))

CosHalfAtan(numerator, denominator) ==
    IF IsNaN(FDiv(numerator, denominator)) THEN NaN
    ELSE IF IsInf(numerator) THEN COS_PI_4
    ELSE IF IsInf(denominator) THEN SCALE
    ELSE ISqrt((SCALE * (SCALE + Cos2Atan(numerator, denominator))) \div 2)

SinHalfAtan(numerator, denominator) ==
    IF IsNaN(FDiv(numerator, denominator)) THEN NaN
    ELSE IF IsInf(numerator) THEN Sign(numerator) * Sign(denominator) * COS_PI_4
    ELSE IF IsInf(denominator) THEN 0
    ELSE Sign(numerator) * Sign(denominator)
         * ISqrt((SCALE * (SCALE - Cos2Atan(numerator, denominator))) \div 2)

\* [cosine, sine] of the rotation angle chosen from the numerator and the
\* denominator of one (p, r) step.
RotationAngle(numerator, denominator) ==
    IF LtEpsilon(FAbs(denominator))
    THEN [cosine |-> COS_PI_4,
          sine |-> IF FGe(numerator, 0) THEN COS_PI_4 ELSE -COS_PI_4]
    ELSE [cosine |-> CosHalfAtan(numerator, denominator),
          sine |-> SinHalfAtan(numerator, denominator)]

\* numerator = 2.0 * qpr, denominator = qpp - qrr
JacobiAngle(q, p, r) ==
    RotationAngle(FMul(2 * SCALE, MAT_AT(q, p, r)),
                  FSub(MAT_AT(q, p, p), MAT_AT(q, r, r)))

\* The body of the inner loop on the iterate it = [q, v].
RotateBy(it, p, r, angle) ==
    apply_jacobi_rotation(it.q, it.v, p, r, angle.cosine, angle.sine)

JacobiStep(it, p, r) ==
    CHOOSE rotated \in
        {RotateBy(it, p, r, angle) : angle \in {JacobiAngle(it.q, p, r)}} : TRUE

\* The loops over p and r of one sweep: `pairs` lists the (p, r) steps in
\* the order they are taken and `outer` counts the iterations of the outer
\* loop, whose bound size - 1 is a size_t.  Once p >= size the inner loop is
\* empty for this and every later p, so the remaining outer iterations are
\* counted at once.
RECURSIVE PairLoop(_, _, _, _)
PairLoop(p, r, size, pairs) ==
    IF ~(p < SizeT(size - 1)) THEN [pairs |-> pairs, outer |-> p]
    ELSE IF p >= size THEN [pairs |-> pairs, outer |-> SizeT(size - 1)]
    ELSE IF r < size THEN PairLoop(p, r + 1, size, Append(pairs, <<p, r>>))
    ELSE PairLoop(p + 1, p + 2, size, pairs)

\* The iterate after the n steps pairs[from], ..., pairs[from + n - 1] of
\* a sweep: the first n / 2 of them followed by the rest.
RECURSIVE RotatePairs(_, _, _, _)
RotatePairs(it, pairs, from, n) ==
    IF n = 0 THEN [q |-> it.q, v |-> it.v]
    ELSE IF n = 1 THEN JacobiStep(it, pairs[from][1], pairs[from][2])
    ELSE CHOOSE rotated \in
             {RotatePairs(half, pairs, from + (n \div 2), n - (n \div 2)) :
                  half \in {RotatePairs(it, pairs, from, n \div 2)}} : TRUE

Diagonal(q, size) == Buffer(size, [i \in 0..(size - 1) |-> MAT_AT(q, i, i)])

\* The convergence sum of a sweep: |Q[i][i] - prev_q[i][i]| summed over the
\* entries where it exceeds 0.001.
SumDiff(q, prev_q, size) ==
    Accumulate([i \in 0..(size - 1) |->
                   IF FGt(FAbs(FSub(MAT_AT(q, i, i), MAT_AT(prev_q, i, i))),
                          SCALE \div 1000)
                   THEN FAbs(FSub(MAT_AT(q, i, i), MAT_AT(prev_q, i, i)))
                   ELSE 0],
               0, size, 0)

\* prev_q left as it was: the diagonal of the first sweep stays in it.
KeepPrevQ(q, prev_q) == prev_q

\* "Update prev_q for next iteration": memcpy(prev_q->data, q->data, ...)
RefreshPrevQ(q, prev_q) == [prev_q EXCEPT !.data = q.data]

\* The log record of one sweep: the pairs rotated, the outer-loop count,
\* whether the convergence check ran and its sum, and the diagonals the
\* check compared (before) and left in prev_q (after).
SweepEntry(loops, checked, sum_diff, before, after) ==
    [pairs |-> loops.pairs, outer |-> loops.outer, checked |-> checked,
     sum_diff |-> sum_diff, before |-> before, after |-> after]

\* The state of the Jacobi iteration: the iterate q, v, the copy prev_q,
\* the loop counter, one log record per sweep run, and whether the loop
\* has been left (by `break`, or by its test sweep < SVD_MAX_SWEEPS).
SweepState(q, v, prev_q, sweep, log, left) ==
    [q |-> q, v |-> v, prev_q |-> prev_q, sweep |-> sweep, log |-> log,
     left |-> left]

\* One iteration of `for (sweep = 0; sweep < SVD_MAX_SWEEPS; sweep++)`:
\* the loop test, the rotations, then the convergence check (from the
\* second sweep on), which refreshes prev_q before it tests.  Once the loop
\* has been left the state stays as it is.
SweepBody(st, size) ==
    LET loops == PairLoop(0, 1, size, <<>>)
        Converged(s, sum_diff) ==
            SweepState(s.q, s.v, RefreshPrevQ(s.q, st.prev_q),
                       IF FLe(sum_diff, SVD_CONVERGENCE_THRESHOLD)
                       THEN st.sweep ELSE st.sweep + 1,
                       Append(st.log, SweepEntry(loops, TRUE, sum_diff,
                                                 Diagonal(st.prev_q, size),
                                                 Diagonal(s.q, size))),
                       FLe(sum_diff, SVD_CONVERGENCE_THRESHOLD)
                       \/ ~(st.sweep + 1 < SVD_MAX_SWEEPS))
        Check(s) ==
            IF st.sweep = 0
            THEN SweepState(s.q, s.v, cmatrix_clone(s.q), st.sweep + 1,
                            Append(st.log, SweepEntry(loops, FALSE, 0,
                                                      Diagonal(st.q, size),
                                                      Diagonal(s.q, size))),
                            ~(st.sweep + 1 < SVD_MAX_SWEEPS))
            ELSE Converged(s, SumDiff(s.q, st.prev_q, size))
    IN Check(RotatePairs(st, loops.pairs, 1, Len(loops.pairs)))

\* The next n iterations of the sweep loop from state st, for n >= 1: the
\* first n / 2 of them followed by the rest.  None is run once the loop has
\* been left (st.left).
RECURSIVE SweepLoop(_, _, _)
SweepLoop(st, n, size) ==
    IF st.left THEN st
    ELSE IF n = 1 THEN SweepBody(st, size)
    ELSE SweepLoop(SweepLoop(st, n \div 2, size), n - (n \div 2), size)

\* s->data[i] = (val > 0) ? sqrt(val) : 0.0
SingularValue(val) == IF FGt(val, 0) THEN FSqrt(val) ELSE 0

\* The inverse taken without the guard: 1.0 / sv for every sv.
InverseUnguarded(sv) == FDiv(SCALE, sv)

\* MAT_AT(s_inv, i, i) = (sv > CLASSIFIER_EPSILON) ? (1.0 / sv) : 0.0
InverseSingular(sv) == IF GtEpsilon(sv) THEN FDiv(SCALE, sv) ELSE 0

\* The Gram matrix: A^T * A when m >= n, A * A^T (transposed = 1) otherwise.
GramMatrix(a) ==
    IF a.rows >= a.cols
    THEN cmatrix_multiply(cmatrix_transpose(a), a)
    ELSE cmatrix_multiply(a, cmatrix_transpose(a))

\* The matrix that U is recovered from.
SvdSource(a, transposed) ==
    IF transposed = 1 THEN cmatrix_transpose(a) ELSE cmatrix_clone(a)

\* s: the square roots of the diagonal of the final iterate q.
SingularValues(q, size) ==
    [size |-> size, is_col |-> 0,
     data |-> Buffer(size, [i \in 0..(size - 1) |->
                  SingularValue(MAT_AT(q, i, i))])]

\* s_inv: the diagonal matrix of the inverted singular values.
InverseDiagonal(s) ==
    [rows |-> s.size, cols |-> s.size,
     data |-> Buffer(s.size * s.size, [x \in 0..(s.size * s.size - 1) |->
                  IF RowOf(x, s.size) = ColOf(x, s.size)
                  THEN InverseSingular(s.data[RowOf(x, s.size)])
                  ELSE 0])]

\* jacobi_svd(a, &u, &v, &s): Ok([u, v, s, q, log]) or the error raised.
\* q is the final iterate (freed by the code, kept here for inspection).
jacobi_svd(a) ==
    LET transposed == IF a.rows >= a.cols THEN 0 ELSE 1
        Return(it, s, u) ==
            IF ~u.ok THEN u
            ELSE Ok([u |-> u.val, v |-> it.v, s |-> s, q |-> it.q,
                     log |-> it.log])
        Scale(it, s, temp) ==
            IF ~temp.ok THEN temp
            ELSE Return(it, s, cmatrix_multiply(temp.val, InverseDiagonal(s)))
        Extract(it, s) ==
            Scale(it, s, cmatrix_multiply(SvdSource(a, transposed), it.v))
        Recover(it, size) == Extract(it, SingularValues(it.q, size))
        Iterate(work_matrix) ==
            IF ~work_matrix.ok THEN work_matrix
            ELSE CHOOSE result \in
                     {Recover(it, work_matrix.val.rows) :
                          it \in {SweepLoop(
                              SweepState(cmatrix_clone(work_matrix.val),
                                         cmatrix_identity(work_matrix.val.rows),
                                         cmatrix_alloc(0, 0), 0, <<>>,
                                         ~(0 < SVD_MAX_SWEEPS)),
                              SVD_MAX_SWEEPS, work_matrix.val.rows)}} : TRUE
    IN Iterate(GramMatrix(a))

(***************************************************************************)
(* incremental_svd.c                                                       *)
(***************************************************************************)
\* v->data[i].  A read at i >= v->size is outside the buffer: undefined
\* behaviour, which yields whatever double `junk` lies there (or faults,
\* see the callers).
ReadDouble(v, i, junk) == IF i < v.size THEN v.data[i] ELSE junk

cmatrix_extend_column(m, col) ==
    IF m.rows # col.size
    THEN RaiseWith("ArgumentError", "cmatrix_extend_column", <<m.rows, col.size>>)
    ELSE Ok([rows |-> m.rows, cols |-> m.cols + 1,
             data |-> Buffer(m.rows * (m.cols + 1),
                 [x \in 0..(m.rows * (m.cols + 1) - 1) |->
                     IF ColOf(x, m.cols + 1) < m.cols
                     THEN MAT_AT(m, RowOf(x, m.cols + 1), ColOf(x, m.cols + 1))
                     ELSE col.data[RowOf(x, m.cols + 1)]])])

cvector_subtract(a, b) ==
    IF a.size # b.size
    THEN RaiseWith("ArgumentError", "cvector_subtract", <<a.size, b.size>>)
    ELSE Ok([size |-> a.size, is_col |-> 0,
             data |-> Buffer(a.size, [i \in 0..(a.size - 1) |->
                                         FSub(a.data[i], b.data[i])])])

\* The projection with `sum` declared outside the loop over j, so that it is
\* not reset between columns: entry j holds the sum over columns 0 .. j.
RECURSIVE RunningSum(_, _, _, _)
RunningSum(u, raw, j, sum) ==
    IF j = u.cols THEN <<>>
    ELSE <<Accumulate([i \in 0..(u.rows - 1) |->
                          FMul(MAT_AT(u, i, j), raw.data[i])],
                      0, u.rows, sum)>>
         \o RunningSum(u, raw, j + 1,
                       Accumulate([i \in 0..(u.rows - 1) |->
                                      FMul(MAT_AT(u, i, j), raw.data[i])],
                                  0, u.rows, sum))
ProjectOneRunningSum(u, raw) ==
    [size |-> u.cols, is_col |-> 0,
     data |-> Buffer(u.cols, [j \in 0..(u.cols - 1) |->
                 RunningSum(u, raw, 0, 0)[j + 1]])]

\* lsi = U^T * raw for one vector: lsi->data[j] = sum_i MAT_AT(u, i, j) * raw[i]
ProjectOne(u, raw) ==
    [size |-> u.cols, is_col |-> 0,
     data |-> Buffer(u.cols, [j \in 0..(u.cols - 1) |->
                 Accumulate([i \in 0..(u.rows - 1) |->
                                FMul(MAT_AT(u, i, j), raw.data[i])],
                            0, u.rows, 0)])]

\* cbatch_project, from vector number v on (1-based position v in the
\* sequence raw_vectors); `done` is lsi_vectors_out as filled so far.  A
\* raise leaves the function with `done` still holding the earlier vectors.
RECURSIVE BatchLoop(_, _, _, _)
BatchLoop(u, raw_vectors, v, done) ==
    IF v > Len(raw_vectors) THEN [ok |-> TRUE, val |-> done]
    ELSE IF raw_vectors[v].size # u.rows
    THEN [ok |-> FALSE, kind |-> "ArgumentError", where |-> "cbatch_project",
          args |-> <<v - 1, raw_vectors[v].size, u.rows>>, partial |-> done]
    ELSE BatchLoop(u, raw_vectors, v + 1,
                   Append(done, ProjectOne(u, raw_vectors[v])))

cbatch_project(u, raw_vectors) == BatchLoop(u, raw_vectors, 1, <<>>)

\* The wrapper handing back what lsi_vectors holds when cbatch_project
\* raised, instead of letting the error through.
rb_cmatrix_batch_project_partial(u, rb_vectors) ==
    IF Len(rb_vectors) = 0 THEN Ok(<<>>)
    ELSE IF cbatch_project(u, rb_vectors).ok
    THEN Ok(cbatch_project(u, rb_vectors).val)
    ELSE Ok(cbatch_project(u, rb_vectors).partial)

\* Matrix#batch_project(vectors_array): the Ruby array returned, or the
\* error raised.  An empty array never reaches cbatch_project.
rb_cmatrix_batch_project(u, rb_vectors) ==
    IF Len(rb_vectors) = 0 THEN Ok(<<>>)
    ELSE LET r == cbatch_project(u, rb_vectors)
         IN IF r.ok THEN Ok(r.val) ELSE RaiseWith(r.kind, r.where, r.args)

\* K = | diag(s)  m_vec  |   of size (s->size + 1) squared; m_vec is read at
\*     |   0      p_norm |   i < s->size whatever its own size.
build_k_matrix_with_growth(s, m_vec, p_norm, junk) ==
    LET k == s.size
    IN [rows |-> k + 1, cols |-> k + 1,
        data |-> Buffer((k + 1) * (k + 1), [x \in 0..((k + 1) * (k + 1) - 1) |->
            LET i == RowOf(x, k + 1)
                j == ColOf(x, k + 1)
            IN IF i < k /\ j = k THEN ReadDouble(m_vec, i, junk)
               ELSE IF i < k /\ j = i THEN s.data[i]
               ELSE IF i = k /\ j = k THEN p_norm
               ELSE 0])]

\* What incremental_update did: the outcome and the path it took.
\*   status  "ok", or "error" with the kind raised and the function raising
\*   u_out, s_out   the outputs (meaningful when status = "ok")
\*   branch  "A" (p_norm > epsilon), "B", or "none" (raised before the test)
\*   oob     the buffers read outside their bounds
\*   k_built whether the bordered matrix K was built, from an S and an
\*           m_vec of sizes k_sizes
\*   grown   <<u_new, s_prime>> as they were before truncation (Case A)
UpdateResult(status, kind, where, u_out, s_out, branch, oob, p_norm, k_sizes, grown, truncated) ==
    [status |-> status, kind |-> kind, where |-> where,
     u_out |-> u_out, s_out |-> s_out, branch |-> branch, oob |-> oob,
     p_norm |-> p_norm, k_built |-> k_sizes # <<>>, k_sizes |-> k_sizes,
     grown |-> grown, truncated |-> truncated]

NoMatrix == cmatrix_alloc(0, 0)
NoVector == cvector_alloc(0)

\* A cap tested one column too late: s_prime->size > (size_t)max_rank + 1.
TruncatesPastCap(s_prime, max_rank) == s_prime.size > SizeT(max_rank) + 1

\* "Truncate if needed": the first max_rank columns of u_new and entries of
\* s_prime when s_prime->size > (size_t)max_rank, else both as they are.
NeedsTruncation(s_prime, max_rank) == s_prime.size > SizeT(max_rank)

\* One memcpy of the first rows * max_rank elements of u_new, not row by row.
TruncateColumnsFlat(u_new, max_rank) ==
    [rows |-> u_new.rows, cols |-> SizeT(max_rank),
     data |-> Buffer(u_new.rows * SizeT(max_rank),
                 [x \in 0..(u_new.rows * SizeT(max_rank) - 1) |-> u_new.data[x]])]

TruncateColumns(u_new, max_rank) ==
    [rows |-> u_new.rows, cols |-> SizeT(max_rank),
     data |-> Buffer(u_new.rows * SizeT(max_rank),
                 [x \in 0..(u_new.rows * SizeT(max_rank) - 1) |->
                     MAT_AT(u_new, RowOf(x, SizeT(max_rank)),
                            ColOf(x, SizeT(max_rank)))])]

\* s_prime handed on with all its entries.
TruncateValuesKeepAll(s_prime, max_rank) == s_prime

TruncateValues(s_prime, max_rank) ==
    [size |-> SizeT(max_rank), is_col |-> 0,
     data |-> Buffer(SizeT(max_rank),
                 [i \in 0..(SizeT(max_rank) - 1) |-> s_prime.data[i]])]

\* Step 3: p_hat = p / p_norm, computed as p * (1.0 / p_norm).
NormalizeResidual(p, p_norm) ==
    [size |-> p.size, is_col |-> 0,
     data |-> Buffer(p.size, [i \in 0..(p.size - 1) |->
                                 FMul(p.data[i], FDiv(SCALE, p_norm))])]

\* Case A (p_norm > epsilon): steps 3 to 6 and the truncation.
GrowRank(u, s, max_rank, m_vec, p, p_norm, oob, junk) ==
    LET oob_k == IF s.size > m_vec.size THEN oob \cup {"m_vec"} ELSE oob
        k_sizes == <<s.size, m_vec.size>>
        Failed(e) ==
            UpdateResult("error", e.kind, e.where, NoMatrix, NoVector, "A",
                         oob_k, p_norm, k_sizes, <<>>, FALSE)
        Truncate(u_new, s_prime) ==
            IF NeedsTruncation(s_prime, max_rank)
            THEN UpdateResult("ok", "", "", TruncateColumns(u_new, max_rank),
                              TruncateValues(s_prime, max_rank), "A", oob_k,
                              p_norm, k_sizes, <<u_new, s_prime>>, TRUE)
            ELSE UpdateResult("ok", "", "", u_new, s_prime, "A", oob_k,
                              p_norm, k_sizes, <<u_new, s_prime>>, FALSE)
        Rotated(svd, u_new) ==
            IF ~u_new.ok THEN Failed(u_new) ELSE Truncate(u_new.val, svd.s)
        Extended(svd, u_extended) ==
            IF ~u_extended.ok THEN Failed(u_extended)
            ELSE Rotated(svd, cmatrix_multiply(u_extended.val, svd.u))
        Decomposed(svd) ==
            IF ~svd.ok THEN Failed(svd)
            ELSE Extended(svd.val,
                          cmatrix_extend_column(u, NormalizeResidual(p, p_norm)))
    IN Decomposed(jacobi_svd(build_k_matrix_with_growth(s, m_vec, p_norm, junk)))

\* Case B with the two memcpy calls left out: the outputs stay as allocated.
AllocateUnchanged(u, s, p_norm, oob) ==
    UpdateResult("ok", "", "", cmatrix_alloc(u.rows, u.cols),
                 cvector_alloc(s.size), "B", oob, p_norm, <<>>, <<>>, FALSE)

\* Case B (p_norm <= epsilon): fresh copies of u and s.
CopyUnchanged(u, s, p_norm, oob) ==
    UpdateResult("ok", "", "",
                 [rows |-> u.rows, cols |-> u.cols,
                  data |-> Buffer(u.rows * u.cols,
                              [x \in 0..(u.rows * u.cols - 1) |-> u.data[x]])],
                 [size |-> s.size, is_col |-> 0,
                  data |-> Buffer(s.size, [i \in 0..(s.size - 1) |-> s.data[i]])],
                 "B", oob, p_norm, <<>>, <<>>, FALSE)

\* Step 1: m_vec = U^T * c, reading c->data[i] for every i < u->rows.
ProjectNew(u, c, junk) ==
    [size |-> u.cols, is_col |-> 0,
     data |-> Buffer(u.cols, [j \in 0..(u.cols - 1) |->
                 Accumulate([i \in 0..(u.rows - 1) |->
                                FMul(MAT_AT(u, i, j), ReadDouble(c, i, junk))],
                            0, u.rows, 0)])]

\* The test written p_norm >= epsilon.
NewDirectionInclusive(p_norm, epsilon) == FGe(p_norm, epsilon)

\* The test that selects Case A.
NewDirection(p_norm, epsilon) == FGt(p_norm, epsilon)

incremental_update(u, s, c, max_rank, epsilon, junk) ==
    LET oob == IF u.cols > 0 /\ u.rows > c.size THEN {"c"} ELSE {}
        Failed(e) ==
            UpdateResult("error", e.kind, e.where, NoMatrix, NoVector, "none",
                         oob, 0, <<>>, <<>>, FALSE)
        Branch(m_vec, p, p_norm) ==
            IF NewDirection(p_norm, epsilon)
            THEN GrowRank(u, s, max_rank, m_vec, p, p_norm, oob, junk)
            ELSE CopyUnchanged(u, s, p_norm, oob)
        Residual(m_vec, p) ==
            IF ~p.ok THEN Failed(p)
            ELSE Branch(m_vec, p.val, cvector_magnitude(p.val))
        Reconstructed(m_vec, u_times_m) ==
            IF ~u_times_m.ok THEN Failed(u_times_m)
            ELSE Residual(m_vec, cvector_subtract(c, u_times_m.val))
        Projected(m_vec) ==
            Reconstructed(m_vec, cmatrix_multiply_vector(u, m_vec))
    IN Projected(ProjectNew(u, c, junk))

\* Matrix#incremental_svd_update(singular_values, new_vector, max_rank,
\* epsilon): no check of its own, the result of incremental_update wrapped.
rb_cmatrix_incremental_update(u, s, c, max_rank, epsilon, junk) ==
    incremental_update(u, s, c, max_rank, epsilon, junk)

\* Matrix#SV_decomp
rb_cmatrix_sv_decomp(m) == jacobi_svd(m)

(***************************************************************************)
(* Ruby values and the Ruby-level methods of vector.c, matrix.c and        *)
(* incremental_svd.c                                                       *)
(***************************************************************************)
\* A Ruby value is tagged with its type: "float" (a double, v), "integer",
\* "array" (v a sequence of Ruby values), "string" (v what Marshal dumped),
\* "vector" / "matrix" (v the CVector / CMatrix wrapped), "true", "false",
\* "nil".  DBL2NUM and NUM2DBL keep the double as it is.
RFloat(x) == [t |-> "float", v |-> x]
RArray(seq) == [t |-> "array", v |-> seq]
\* rb_ary_entry(ary, i): nil outside the array.
rb_ary_entry(ary, i) ==
    IF 0 <= i /\ i < Len(ary.v) THEN ary.v[i + 1] ELSE [t |-> "nil", v |-> 0]
\* Marshal (Ruby core) restores the array it dumped.
rb_marshal_dump(obj) == [t |-> "string", v |-> obj]
rb_marshal_load(str) == str.v

\* long has the width size_t has; the value of a size_t converted to long.
ToLong(x) == IF SizeT(x) >= SIZE_MOD \div 2 THEN SizeT(x) - SIZE_MOD ELSE SizeT(x)
\* The size added to index 0 as well.
WrapIndexFromZero(idx, size) == IF idx <= 0 THEN ToLong(SizeT(idx) + size) ELSE idx

\* long i = NUM2LONG(idx); if (i < 0) i += size;  (the sum taken in size_t)
WrapIndex(idx, size) == IF idx < 0 THEN ToLong(SizeT(idx) + size) ELSE idx
\* i < 0 || (size_t)i >= size
OutOfBounds(i, size) == i < 0 \/ SizeT(i) >= size

\* Vector.alloc(size_or_array)
rb_cvector_s_alloc(arg) ==
    IF arg.t = "array"
    THEN [size |-> Len(arg.v), is_col |-> 0,
          data |-> Buffer(Len(arg.v), [i \in 0..(Len(arg.v) - 1) |-> arg.v[i + 1].v])]
    ELSE cvector_alloc(SizeT(arg.v))

\* Vector#[] and Vector#[]=: the value returned, and self after the call.
rb_cvector_aref(v, idx) ==
    IF OutOfBounds(WrapIndex(idx, v.size), v.size)
    THEN RaiseWith("IndexError", "rb_cvector_aref", <<WrapIndex(idx, v.size)>>)
    ELSE Ok(v.data[WrapIndex(idx, v.size)])

rb_cvector_aset(v, idx, val) ==
    IF OutOfBounds(WrapIndex(idx, v.size), v.size)
    THEN RaiseWith("IndexError", "rb_cvector_aset", <<WrapIndex(idx, v.size)>>)
    ELSE [ok |-> TRUE, val |-> val,
          self |-> [v EXCEPT !.data[WrapIndex(idx, v.size)] = val]]

rb_cvector_to_a(v) == RArray([i \in 1..v.size |-> RFloat(v.data[i - 1])])

\* Vector#col: a copy of self as a column vector.
rb_cvector_col(v) ==
    [size |-> v.size, is_col |-> 1,
     data |-> Buffer(v.size, [i \in 0..(v.size - 1) |-> v.data[i]])]

\* Vector#*(other): the dot product, the scaled vector, or a TypeError.
rb_cvector_mul(v, other) ==
    IF other.t = "vector" THEN cvector_dot(v, other.v)
    ELSE IF other.t \in {"float", "integer"}
    THEN Ok([size |-> v.size, is_col |-> v.is_col,
             data |-> Buffer(v.size, [i \in 0..(v.size - 1) |->
                                         FMul(v.data[i], other.v)])])
    ELSE Raise("TypeError", "rb_cvector_mul")

\* Vector#_dump: to_a with is_col pushed at the end, marshalled.
rb_cvector_dump(v) ==
    rb_marshal_dump(RArray(Append(rb_cvector_to_a(v).v,
        [t |-> IF v.is_col # 0 THEN "true" ELSE "false", v |-> 0])))

\* Vector._load: the last element popped as is_col, the rest given to alloc.
rb_cvector_s_load(str) ==
    [rb_cvector_s_alloc(RArray(SubSeq(rb_marshal_load(str).v, 1,
                                      Len(rb_marshal_load(str).v) - 1)))
        EXCEPT !.is_col =
            IF rb_ary_entry(rb_marshal_load(str),
                            Len(rb_marshal_load(str).v) - 1).t \in {"false", "nil"}
            THEN 0 ELSE 1]

\* The allocator of Matrix (Matrix.allocate, Matrix.new): 0 x 0.
rb_cmatrix_alloc_func == cmatrix_alloc(0, 0)

\* Matrix.alloc(*rows) with argv the arguments.  RARRAY_LEN of a row that
\* is not an array is undefined; the rows modelled are arrays.
rb_cmatrix_s_alloc(argv) ==
    LET Fill(rows_ary, num_rows, num_cols) ==
            IF num_rows = 0 THEN Raise("ArgumentError", "rb_cmatrix_s_alloc")
            ELSE IF \E i \in 1..num_rows : Len(rows_ary.v[i].v) # num_cols
            THEN Raise("ArgumentError", "rb_cmatrix_s_alloc")
            ELSE Ok([rows |-> num_rows, cols |-> num_cols,
                     data |-> Buffer(num_rows * num_cols,
                         [x \in 0..(num_rows * num_cols - 1) |->
                             rows_ary.v[RowOf(x, num_cols) + 1]
                                     .v[ColOf(x, num_cols) + 1].v])])
        Rows(rows_ary) ==
            Fill(rows_ary, Len(rows_ary.v),
                 IF Len(rows_ary.v) = 0 THEN 0 ELSE Len(rows_ary.v[1].v))
    IN IF Len(argv) = 0 THEN Raise("ArgumentError", "rb_cmatrix_s_alloc")
       ELSE IF Len(argv) = 1 /\ argv[1].t = "array"
               /\ rb_ary_entry(argv[1], 0).t = "array"
       THEN Rows(argv[1])
       ELSE Rows(RArray(argv))

rb_cmatrix_aref(m, row, col) ==
    IF OutOfBounds(WrapIndex(row, m.rows), m.rows)
       \/ OutOfBounds(WrapIndex(col, m.cols), m.cols)
    THEN Raise("IndexError", "rb_cmatrix_aref")
    ELSE Ok(MAT_AT(m, WrapIndex(row, m.rows), WrapIndex(col, m.cols)))

rb_cmatrix_aset(m, row, col, val) ==
    IF OutOfBounds(WrapIndex(row, m.rows), m.rows)
       \/ OutOfBounds(WrapIndex(col, m.cols), m.cols)
    THEN Raise("IndexError", "rb_cmatrix_aset")
    ELSE [ok |-> TRUE, val |-> val,
          self |-> [m EXCEPT !.data[WrapIndex(row, m.rows) * m.cols
                                    + WrapIndex(col, m.cols)] = val]]

rb_cmatrix_trans(m) == cmatrix_transpose(m)

rb_cmatrix_to_a(m) ==
    RArray([i \in 1..m.rows |->
               RArray([j \in 1..m.cols |-> RFloat(MAT_AT(m, i - 1, j - 1))])])

\* Matrix#*(other): with a Matrix, a Vector or a number.
rb_cmatrix_mul(m, other) ==
    IF other.t = "matrix" THEN cmatrix_multiply(m, other.v)
    ELSE IF other.t = "vector" THEN cmatrix_multiply_vector(m, other.v)
    ELSE IF other.t \in {"float", "integer"}
    THEN Ok([rows |-> m.rows, cols |-> m.cols,
             data |-> Buffer(m.rows * m.cols, [x \in 0..(m.rows * m.cols - 1) |->
                                                  FMul(m.data[x], other.v)])])
    ELSE Raise("TypeError", "rb_cmatrix_mul")

rb_cmatrix_dump(m) == rb_marshal_dump(rb_cmatrix_to_a(m))

\* Matrix._load: the rows of the dumped array are the arguments of alloc.
rb_cmatrix_s_load(str) == rb_cmatrix_s_alloc(rb_marshal_load(str).v)

\* [top; bottom]
cmatrix_vstack(top, bottom) ==
    IF top.cols # bottom.cols
    THEN RaiseWith("ArgumentError", "cmatrix_vstack", <<top.cols, bottom.cols>>)
    ELSE Ok([rows |-> top.rows + bottom.rows, cols |-> top.cols,
             data |-> Buffer((top.rows + bottom.rows) * top.cols,
                 [x \in 0..((top.rows + bottom.rows) * top.cols - 1) |->
                     IF x < top.rows * top.cols THEN top.data[x]
                     ELSE bottom.data[x - top.rows * top.cols]])])

\* The rows copied, the new column left as cmatrix_alloc zeroed it.
rb_cmatrix_extend_column_rows_only(rb_matrix, rb_vector) ==
    cmatrix_extend_column(rb_matrix,
        [rb_vector EXCEPT !.data = [i \in DOMAIN rb_vector.data |-> 0]])

rb_cmatrix_extend_column(rb_matrix, rb_vector) ==
    cmatrix_extend_column(rb_matrix, rb_vector)

rb_cmatrix_vstack(rb_top, rb_bottom) == cmatrix_vstack(rb_top, rb_bottom)

\* Vector#-(other)
rb_cvector_subtract(a, other) ==
    IF other.t = "vector" THEN cvector_subtract(a, other.v)
    ELSE Raise("TypeError", "rb_cvector_subtract")

(***************************************************************************)
(* What each operation does to memory                                      *)
(***************************************************************************)
\* The operations again, as the sequence of their effects on buffers, in
\* the order of the code.  A buffer is named by the parameter or the local
\* variable that holds it when it is allocated, with an index where there
\* are several (lsi); an event is <<kind, name, index>> with kind "alloc"
\* (cmatrix_alloc, cvector_alloc or a callee returning a new buffer),
\* "write" (an element assignment or a memcpy into it), "free", "return"
\* (the return value, or the assignment to an output parameter) and "raise"
\* (rb_raise, which ends the call at once).  A loop that makes no iteration
\* writes nothing.  The temporaries a callee allocates and frees itself are
\* listed with the callee only.
Written(name, n) == IF n > 0 THEN << <<"write", name, 0>> >> ELSE <<>>

cmatrix_transpose_in_place_events(m) ==
    Written("m", m.rows * m.cols) \o << <<"return", "m", 0>> >>

cmatrix_transpose_events(m) ==
    << <<"alloc", "result", 0>> >> \o Written("result", m.rows * m.cols)
    \o << <<"return", "result", 0>> >>

\* Matrix#*: cmatrix_multiply, cmatrix_multiply_vector or the scaled copy.
rb_cmatrix_mul_events(m, other) ==
    IF other.t = "matrix"
    THEN IF m.cols # other.v.rows THEN << <<"raise", "cmatrix_multiply", 0>> >>
         ELSE << <<"alloc", "result", 0>> >>
              \o Written("result", m.rows * other.v.cols)
              \o << <<"return", "result", 0>> >>
    ELSE IF other.t = "vector"
    THEN IF m.cols # other.v.size
         THEN << <<"raise", "cmatrix_multiply_vector", 0>> >>
         ELSE << <<"alloc", "result", 0>> >> \o Written("result", m.rows)
              \o << <<"return", "result", 0>> >>
    ELSE IF other.t \in {"float", "integer"}
    THEN << <<"alloc", "result", 0>> >> \o Written("result", m.rows * m.cols)
         \o << <<"return", "result", 0>> >>
    ELSE << <<"raise", "rb_cmatrix_mul", 0>> >>

cmatrix_extend_column_events(m, col) ==
    IF m.rows # col.size THEN << <<"raise", "cmatrix_extend_column", 0>> >>
    ELSE << <<"alloc", "result", 0>> >> \o Written("result", m.rows)
         \o << <<"return", "result", 0>> >>

\* The two memcpy calls are made whatever their length is.
cmatrix_vstack_events(top, bottom) ==
    IF top.cols # bottom.cols THEN << <<"raise", "cmatrix_vstack", 0>> >>
    ELSE << <<"alloc", "result", 0>>, <<"write", "result", 0>>,
            <<"write", "result", 0>>, <<"return", "result", 0>> >>

cvector_subtract_events(a, b) ==
    IF a.size # b.size THEN << <<"raise", "cvector_subtract", 0>> >>
    ELSE << <<"alloc", "result", 0>> >> \o Written("result", a.size)
         \o << <<"return", "result", 0>> >>

\* jacobi_svd(a, &u, &v, &s), with log the sweeps it ran: q and v are
\* rotated in every sweep that has a pair, prev_q is cloned in the first
\* sweep and copied over in every later one.
jacobi_svd_events(a, log) ==
    LET size == IF a.rows >= a.cols THEN a.cols ELSE a.rows
    IN
    << <<"alloc", "at", 0>> >> \o Written("at", a.rows * a.cols)
    \o << <<"alloc", "work_matrix", 0>> >>
    \o Written("work_matrix", size)
    \o << <<"free", "at", 0>>, <<"alloc", "q", 0>> >>
    \o Written("q", size)
    \o << <<"alloc", "v", 0>> >> \o Written("v", size)
    \o Written("q", Len(log[1].pairs)) \o Written("v", Len(log[1].pairs))
    \o << <<"alloc", "prev_q", 0>> >> \o Written("prev_q", size)
    \o Written("prev_q", Len(log) - 1)
    \o << <<"free", "prev_q", 0>>, <<"alloc", "s", 0>> >>
    \o Written("s", size)
    \o << <<"alloc", "s_inv", 0>> >> \o Written("s_inv", size)
    \o << <<"alloc", "source", 0>> >> \o Written("source", a.rows * a.cols)
    \o << <<"alloc", "temp", 0>>, <<"alloc", "u", 0>>,
          <<"free", "temp", 0>>, <<"free", "s_inv", 0>>, <<"free", "source", 0>>,
          <<"free", "q", 0>>, <<"free", "work_matrix", 0>>,
          <<"return", "u", 0>>, <<"return", "v", 0>>, <<"return", "s", 0>> >>

\* cbatch_project(u, raw_vectors, num_vectors, lsi_vectors_out): one lsi
\* per vector up to the first one whose size is not u->rows.
cbatch_project_events(u, raw_vectors) ==
    LET bad == {v \in 1..Len(raw_vectors) : raw_vectors[v].size # u.rows}
        done == IF bad = {} THEN Len(raw_vectors)
                ELSE (CHOOSE v \in bad : \A w \in bad : v <= w) - 1
    IN [x \in 1..(3 * done) |->
           IF x % 3 = 1 THEN <<"alloc", "lsi", (x - 1) \div 3>>
           ELSE IF x % 3 = 2 THEN <<"write", "lsi", (x - 1) \div 3>>
           ELSE <<"return", "lsi", (x - 1) \div 3>>]
       \o (IF bad = {} THEN <<>> ELSE << <<"raise", "cbatch_project", 0>> >>)

\* incremental_update(u, s, c, max_rank, epsilon, &u_out, &s_out), with r
\* the result of the call: the branch taken, whether it truncated, and
\* where it raised.
incremental_update_events(u, s, c, r) ==
    LET Truncation ==
            IF r.truncated
            THEN << <<"alloc", "u_trunc", 0>> >>
                 \o Written("u_trunc", r.grown[1].rows)
                 \o << <<"free", "u_new", 0>>, <<"alloc", "s_trunc", 0>>,
                       <<"write", "s_trunc", 0>>, <<"free", "s_prime", 0>>,
                       <<"return", "u_trunc", 0>>, <<"return", "s_trunc", 0>> >>
            ELSE << <<"return", "u_new", 0>>, <<"return", "s_prime", 0>> >>
        CaseA ==
            << <<"alloc", "p_hat", 0>> >> \o Written("p_hat", u.rows)
            \o << <<"alloc", "k_mat", 0>>, <<"write", "k_mat", 0>>,
                  <<"alloc", "u_prime", 0>>, <<"alloc", "v_prime", 0>>,
                  <<"alloc", "s_prime", 0>>,
                  <<"free", "k_mat", 0>>, <<"free", "v_prime", 0>>,
                  <<"alloc", "u_extended", 0>> >>
            \o Written("u_extended", u.rows)
            \o (IF r.status = "error" /\ r.where = "cmatrix_multiply"
                THEN << <<"raise", "cmatrix_multiply", 0>> >>
                ELSE << <<"alloc", "u_new", 0>> >>
                     \o Written("u_new", u.rows)
                     \o << <<"free", "u_extended", 0>>, <<"free", "u_prime", 0>>,
                           <<"free", "p_hat", 0>> >>
                     \o Truncation
                     \o << <<"free", "p", 0>>, <<"free", "m_vec", 0>> >>)
        CaseB ==
            << <<"alloc", "u_out", 0>>, <<"write", "u_out", 0>>,
               <<"return", "u_out", 0>>,
               <<"alloc", "s_out", 0>>, <<"write", "s_out", 0>>,
               <<"return", "s_out", 0>>,
               <<"free", "p", 0>>, <<"free", "m_vec", 0>> >>
    IN << <<"alloc", "m_vec", 0>> >> \o Written("m_vec", u.cols)
       \o << <<"alloc", "u_times_m", 0>> >> \o Written("u_times_m", u.rows)
       \o (IF r.status = "error" /\ r.where = "cvector_subtract"
           THEN << <<"raise", "cvector_subtract", 0>> >>
           ELSE << <<"alloc", "p", 0>> >> \o Written("p", c.size)
                \o << <<"free", "u_times_m", 0>> >>
                \o (IF r.branch = "A" THEN CaseA ELSE CaseB))

(***************************************************************************)
(* classifier_ext.c and the Init_ functions: what loading the extension    *)
(* defines.  The method table is a set of <<class, kind, name>> with kind  *)
(* "class" (the class itself), "singleton" or "instance".                  *)
(***************************************************************************)
rb_define_class_under(table, class) == table \cup {<<class, "class", "">>}
rb_define_method(table, class, name) == table \cup {<<class, "instance", name>>}
rb_define_alias(table, class, new_name, old_name) ==
    IF <<class, "instance", old_name>> \in table
    THEN table \cup {<<class, "instance", new_name>>}
    ELSE table

\* "allocate" is what rb_define_alloc_func provides.
Init_vector(table) ==
    rb_define_class_under(table, "Vector")
    \cup {<<"Vector", "singleton", name>> : name \in {"allocate", "alloc", "_load"}}
    \cup {<<"Vector", "instance", name>> : name \in
            {"size", "[]", "[]=", "to_a", "sum", "each", "collect", "map",
             "normalize", "row", "col", "*", "_dump"}}

Init_matrix(table) ==
    rb_define_class_under(table, "Matrix")
    \cup {<<"Matrix", "singleton", name>> : name \in
            {"allocate", "alloc", "diag", "diagonal", "_load"}}
    \cup {<<"Matrix", "instance", name>> : name \in
            {"size", "row_size", "column_size", "[]", "[]=", "trans",
             "transpose", "column", "row", "to_a", "*", "_dump"}}

Init_svd(table) ==
    rb_define_alias(rb_define_method(table, "Matrix", "SV_decomp"),
                    "Matrix", "svd", "SV_decomp")

Init_incremental_svd(table) ==
    table
    \cup {<<"Matrix", "singleton", name>> : name \in
            {"extend_column", "vstack", "zeros"}}
    \cup {<<"Matrix", "instance", name>> : name \in
            {"batch_project", "incremental_svd_update"}}
    \cup {<<"Vector", "instance", "-">>}

\* Init_classifier_ext: the three calls it makes, in order.
Init_classifier_ext(table) == Init_svd(Init_matrix(Init_vector(table)))

(***************************************************************************)
(* The callers                                                             *)
(***************************************************************************)
VARIABLES
    U,          \* the factorization the caller holds: U (m x k) ...
    S,          \* ... and its singular values
    max_rank,   \* the caller's rank cap, passed to every update
    epsilon,    \* the caller's new-direction threshold, passed to every update
    n_calls,    \* updates made so far
    A,          \* the matrix handed to SV_decomp
    call,       \* the last call made: its name and arguments
    ret,        \* what that call did
    methods     \* the classes and methods defined in the Ruby process

vars == <<U, S, max_rank, epsilon, n_calls, A, call, ret, methods>>

\* Literals: a rows x cols matrix from its row-major entries, a vector.
Mat(rows, cols, seq) ==
    [rows |-> rows, cols |-> cols,
     data |-> Buffer(rows * cols, [x \in 0..(rows * cols - 1) |-> seq[x + 1]])]
Vec(seq) ==
    [size |-> Len(seq), is_col |-> 0,
     data |-> Buffer(Len(seq), [i \in 0..(Len(seq) - 1) |-> seq[i + 1]])]

\* All sequences of length n over the set vals.
RECURSIVE SeqsOf(_, _)
SeqsOf(vals, n) ==
    IF n = 0 THEN {<<>>}
    ELSE {Append(s, x) : s \in SeqsOf(vals, n - 1), x \in vals}

\* --- bounds ---
\* Updates chained in one behaviour.
MaxCalls == 2
\* Vectors in one batch_project call.
MaxVectors == 2
\* Rows and columns of a matrix handed to SV_decomp.
MaxDim == 2

\* The factorizations a caller starts from: a unit column, an empty one
\* (k = 0), full rank, and two whose S does not match U.cols.
InitFactorizations ==
    { [u |-> Mat(2, 1, <<SCALE, 0>>), s |-> Vec(<<SCALE>>)],
      [u |-> Mat(2, 0, <<>>), s |-> Vec(<<>>)],
      [u |-> Mat(2, 2, <<SCALE, 0, 0, SCALE>>), s |-> Vec(<<2 * SCALE, SCALE>>)],
      [u |-> Mat(2, 1, <<SCALE, 0>>), s |-> Vec(<<2 * SCALE, SCALE>>)],
      [u |-> Mat(2, 2, <<SCALE, 0, 0, SCALE>>), s |-> Vec(<<SCALE>>)] }

MaxRanks == {-1, 0, 1, 2, 5}
\* -0.001, 0 and 1.0
Epsilons == {-1, 0, SCALE}

\* New document vectors offered for a U with m rows: every 0/1 vector of
\* size m, one that is too short and one that is too long.
NewVectors(m) ==
    {Vec(s) : s \in SeqsOf({0, SCALE}, m)}
    \cup {Vec(s) : s \in SeqsOf({SCALE}, m + 1)}
    \cup (IF m > 0 THEN {Vec(s) : s \in SeqsOf({SCALE}, m - 1)} ELSE {})

\* What an out-of-bounds read may find.  Only calls that make one depend on it.
JunkValues(u, s, c) ==
    IF c.size < u.rows \/ s.size > u.cols THEN {0, NaN} ELSE {0}

NoCall == [op |-> "none"]
NoRet == [status |-> "none"]

Init ==
    /\ \E f \in InitFactorizations : U = f.u /\ S = f.s
    /\ max_rank \in MaxRanks
    /\ epsilon \in Epsilons
    /\ n_calls = 0
    /\ A = NoMatrix
    /\ call = NoCall
    /\ ret = NoRet
    /\ methods = {}

\* u_new, s_new = u.incremental_svd_update(s, c, max_rank, epsilon), the
\* caller keeping the returned factorization.  A call that read outside a
\* buffer may also end in a fault of the process.
IncrementalUpdate ==
    /\ n_calls < MaxCalls
    /\ ret.status # "crash"
    /\ \E c \in NewVectors(U.rows) : \E junk \in JunkValues(U, S, c) :
        \E r \in {rb_cmatrix_incremental_update(U, S, c, max_rank, epsilon, junk)} :
            /\ call' = [op |-> "incremental_update", u |-> U, s |-> S, c |-> c,
                        max_rank |-> max_rank, epsilon |-> epsilon]
            /\ \/ /\ ret' = r @@ [events |-> incremental_update_events(U, S, c, r)]
                  /\ U' = IF r.status = "ok" THEN r.u_out ELSE U
                  /\ S' = IF r.status = "ok" THEN r.s_out ELSE S
               \/ /\ r.oob # {}
                  /\ ret' = [r EXCEPT !.status = "crash", !.kind = "SIGSEGV",
                                      !.u_out = NoMatrix, !.s_out = NoVector]
                            @@ [events |-> <<>>]
                  /\ UNCHANGED <<U, S>>
    /\ n_calls' = n_calls + 1
    /\ UNCHANGED <<max_rank, epsilon, A, methods>>

Next == IncrementalUpdate

Spec == Init /\ [][Next]_vars

\* --- SV_decomp on its own ---
\* Every matrix of at most MaxDim rows and columns (0 included) over
\* {-1.0, 0, 1.0}, or over {0, 1.0} once it has more than 4 entries.
EntryValues(cells) == IF cells <= 4 THEN {-SCALE, 0, SCALE} ELSE {0, SCALE}

SvdInputs ==
    UNION { {Mat(r, c, s) : s \in SeqsOf(EntryValues(r * c), r * c)} :
            r \in 0..MaxDim, c \in 0..MaxDim }

InitSVD ==
    /\ A \in SvdInputs
    /\ U = NoMatrix /\ S = NoVector
    /\ max_rank = 0 /\ epsilon = 0 /\ n_calls = 0
    /\ call = NoCall
    /\ ret = NoRet
    /\ methods = {}

\* u, v, s = a.SV_decomp
SVDecomp ==
    /\ \E r \in {rb_cmatrix_sv_decomp(A)} :
        /\ call' = [op |-> "SV_decomp", a |-> A]
        /\ ret' = IF r.ok
                  THEN [status |-> "ok", kind |-> "", where |-> "",
                        u |-> r.val.u, v |-> r.val.v, s |-> r.val.s,
                        q |-> r.val.q, log |-> r.val.log,
                        events |-> jacobi_svd_events(A, r.val.log)]
                  ELSE [status |-> "error", kind |-> r.kind, where |-> r.where,
                        u |-> NoMatrix, v |-> NoMatrix, s |-> NoVector,
                        q |-> NoMatrix, log |-> <<>>, events |-> <<>>]
    /\ UNCHANGED <<U, S, max_rank, epsilon, n_calls, A, methods>>

NextSVD == SVDecomp

SpecSVD == InitSVD /\ [][NextSVD]_vars

\* --- batch_project on its own ---
ProjectionMatrices ==
    { Mat(2, 2, <<SCALE, 0, 0, SCALE>>),
      Mat(2, 2, <<SCALE, 2 * SCALE, 3 * SCALE, -SCALE>>),
      Mat(2, 1, <<SCALE, SCALE>>),
      Mat(2, 3, <<SCALE, 0, 2 * SCALE, 0, SCALE, SCALE>>),
      Mat(2, 0, <<>>) }

\* Vectors offered for a U with m rows: two of size m, one too short and
\* one too long.
RawVectors(m) ==
    { Vec([i \in 1..m |-> (i + 2) * SCALE]), Vec([i \in 1..m |-> (i + 4) * SCALE]),
      Vec([i \in 1..(m + 1) |-> SCALE]) }
    \cup (IF m > 0 THEN {Vec([i \in 1..(m - 1) |-> SCALE])} ELSE {})

VectorLists(m) == UNION {SeqsOf(RawVectors(m), n) : n \in 0..MaxVectors}

InitProject ==
    /\ U \in ProjectionMatrices
    /\ S = NoVector /\ A = NoMatrix
    /\ max_rank = 0 /\ epsilon = 0 /\ n_calls = 0
    /\ call = NoCall
    /\ ret = NoRet
    /\ methods = {}

\* lsi_vectors = u.batch_project(vectors)
BatchProject ==
    /\ \E vectors \in VectorLists(U.rows) :
        \E r \in {rb_cmatrix_batch_project(U, vectors)} :
            /\ call' = [op |-> "batch_project", u |-> U, vectors |-> vectors]
            /\ ret' = IF r.ok
                      THEN [status |-> "ok", kind |-> "", where |-> "",
                            value |-> r.val,
                            events |-> cbatch_project_events(U, vectors)]
                      ELSE [status |-> "error", kind |-> r.kind,
                            where |-> r.where, value |-> <<>>,
                            events |-> cbatch_project_events(U, vectors)]
    /\ UNCHANGED <<U, S, max_rank, epsilon, n_calls, A, methods>>

NextProject == BatchProject

SpecProject == InitProject /\ [][NextProject]_vars

\* --- the element-level operations of Vector and Matrix ---
\* Mutating calls chained in one behaviour.
MaxWrites == 1

\* The arguments of Matrix.alloc a caller starts from: [[1,2],[3,4]], the
\* single row [1,2], two empty rows, and the unit column [[1],[0]].
OpsRows ==
    << <<RArray(<<RArray(<<RFloat(SCALE), RFloat(2 * SCALE)>>),
                 RArray(<<RFloat(3 * SCALE), RFloat(4 * SCALE)>>)>>)>>,
      <<RArray(<<RFloat(SCALE), RFloat(2 * SCALE)>>)>>,
      <<RArray(<<>>), RArray(<<>>)>>,
      <<RArray(<<RFloat(SCALE)>>), RArray(<<RFloat(0)>>)>> >>

\* The matrices made by Matrix.alloc, and the one Matrix.new makes.
OpsMatrices ==
    {rb_cmatrix_s_alloc(OpsRows[i]).val : i \in 1..Len(OpsRows)}
    \cup {rb_cmatrix_alloc_func}

\* Vector.alloc([]), Vector.alloc([5.0]), Vector.alloc([5.0, 6.0]),
\* Vector.alloc([1.0]) and Vector.alloc(2).
OpsVectors ==
    {rb_cvector_s_alloc(RArray([i \in 1..n |-> RFloat((4 + i) * SCALE)])) : n \in 0..2}
    \cup {rb_cvector_s_alloc(RArray(<<RFloat(SCALE)>>)),
          rb_cvector_s_alloc([t |-> "integer", v |-> 2])}

\* The indices from -(n + 1) to n for a dimension of size n, LONG_MIN and
\* LONG_MAX.
Indices(n) == ((-(n + 1))..n) \cup {-(SIZE_MOD \div 2), SIZE_MOD \div 2 - 1}

\* What the caller sees of a call: the value returned, or the exception.
Outcome(r) ==
    IF r.ok
    THEN [status |-> "ok", kind |-> "", where |-> "", args |-> <<>>, val |-> r.val]
    ELSE [status |-> "error", kind |-> r.kind, where |-> r.where,
          args |-> r.args, val |-> NoMatrix]

\* The caller holds a matrix U and a vector S; SV_decomp is applied to the
\* matrix it started with, and updates keep rank 1.
InitOps ==
    /\ U \in OpsMatrices
    /\ S \in OpsVectors
    /\ A = U
    /\ max_rank = 1 /\ epsilon = 0 /\ n_calls = 0
    /\ call = NoCall
    /\ ret = NoRet
    /\ methods = {}

\* s[idx]
VectorAref ==
    /\ \E idx \in Indices(S.size) :
        /\ call' = [op |-> "Vector#[]", self |-> S, idx |-> idx]
        /\ ret' = Outcome(rb_cvector_aref(S, idx))
    /\ UNCHANGED <<U, S, max_rank, epsilon, n_calls, A, methods>>

\* s[idx] = 9.0
VectorAset ==
    /\ n_calls < MaxWrites
    /\ \E idx \in Indices(S.size) : \E r \in {rb_cvector_aset(S, idx, 9 * SCALE)} :
        /\ call' = [op |-> "Vector#[]=", self |-> S, idx |-> idx, val |-> 9 * SCALE]
        /\ ret' = Outcome(r)
        /\ S' = IF r.ok THEN r.self ELSE S
    /\ n_calls' = n_calls + 1
    /\ UNCHANGED <<U, max_rank, epsilon, A, methods>>

\* u[row, col]
MatrixAref ==
    /\ \E row \in Indices(U.rows), col \in (-(U.cols + 1))..U.cols :
        /\ call' = [op |-> "Matrix#[]", self |-> U, row |-> row, col |-> col]
        /\ ret' = Outcome(rb_cmatrix_aref(U, row, col))
    /\ UNCHANGED <<U, S, max_rank, epsilon, n_calls, A, methods>>

\* u[row, col] = 9.0
MatrixAset ==
    /\ n_calls < MaxWrites
    /\ \E row \in Indices(U.rows), col \in (-(U.cols + 1))..U.cols :
        \E r \in {rb_cmatrix_aset(U, row, col, 9 * SCALE)} :
            /\ call' = [op |-> "Matrix#[]=", self |-> U, row |-> row, col |-> col,
                        val |-> 9 * SCALE]
            /\ ret' = Outcome(r)
            /\ U' = IF r.ok THEN r.self ELSE U
    /\ n_calls' = n_calls + 1
    /\ UNCHANGED <<S, max_rank, epsilon, A, methods>>

\* s = s.col
VectorCol ==
    /\ n_calls < MaxWrites
    /\ call' = [op |-> "Vector#col", self |-> S]
    /\ ret' = Outcome(Ok(rb_cvector_col(S)))
    /\ S' = rb_cvector_col(S)
    /\ n_calls' = n_calls + 1
    /\ UNCHANGED <<U, max_rank, epsilon, A, methods>>

\* u = u.trans
Transpose ==
    /\ n_calls < MaxWrites
    /\ call' = [op |-> "Matrix#trans", self |-> U]
    /\ ret' = Outcome(Ok(rb_cmatrix_trans(U)))
              @@ [events |-> cmatrix_transpose_events(U)]
    /\ U' = rb_cmatrix_trans(U)
    /\ n_calls' = n_calls + 1
    /\ UNCHANGED <<S, max_rank, epsilon, A, methods>>

\* Marshal.load(Marshal.dump(s)), or Vector.alloc(s.to_a)
VectorRoundTrip ==
    /\ \E via \in {"marshal", "to_a"} :
        /\ call' = [op |-> "Vector round trip", self |-> S, via |-> via]
        /\ ret' = Outcome(Ok(IF via = "marshal"
                             THEN rb_cvector_s_load(rb_cvector_dump(S))
                             ELSE rb_cvector_s_alloc(rb_cvector_to_a(S))))
    /\ UNCHANGED <<U, S, max_rank, epsilon, n_calls, A, methods>>

\* Marshal.load(Marshal.dump(u)), or Matrix.alloc(u.to_a)
MatrixRoundTrip ==
    /\ \E via \in {"marshal", "to_a"} :
        /\ call' = [op |-> "Matrix round trip", self |-> U, via |-> via]
        /\ ret' = Outcome(IF via = "marshal"
                          THEN rb_cmatrix_s_load(rb_cmatrix_dump(U))
                          ELSE rb_cmatrix_s_alloc(<<rb_cmatrix_to_a(U)>>))
    /\ UNCHANGED <<U, S, max_rank, epsilon, n_calls, A, methods>>

\* Matrix.extend_column(u, s)
ExtendColumn ==
    /\ call' = [op |-> "extend_column", m |-> U, col |-> S]
    /\ ret' = Outcome(rb_cmatrix_extend_column(U, S))
              @@ [events |-> cmatrix_extend_column_events(U, S)]
    /\ UNCHANGED <<U, S, max_rank, epsilon, n_calls, A, methods>>

\* Matrix.vstack(u, bottom)
VStack ==
    /\ \E bottom \in OpsMatrices :
        /\ call' = [op |-> "vstack", top |-> U, bottom |-> bottom]
        /\ ret' = Outcome(rb_cmatrix_vstack(U, bottom))
                  @@ [events |-> cmatrix_vstack_events(U, bottom)]
    /\ UNCHANGED <<U, S, max_rank, epsilon, n_calls, A, methods>>

\* u * other, with a Matrix, a Vector or 2.0
MatrixMul ==
    /\ \E t \in {"matrix", "vector", "float"} :
        \E other \in IF t = "matrix" THEN OpsMatrices
                      ELSE IF t = "vector" THEN {S} ELSE {2 * SCALE} :
            /\ call' = [op |-> "Matrix#*", self |-> U, other |-> [t |-> t, v |-> other]]
            /\ ret' = Outcome(rb_cmatrix_mul(U, [t |-> t, v |-> other]))
                      @@ [events |-> rb_cmatrix_mul_events(U, [t |-> t, v |-> other])]
    /\ UNCHANGED <<U, S, max_rank, epsilon, n_calls, A, methods>>

\* s * other (the dot product) and s - other, with a Vector
VectorDot ==
    /\ \E b \in OpsVectors :
        /\ call' = [op |-> "Vector#*", self |-> S, other |-> b]
        /\ ret' = Outcome(rb_cvector_mul(S, [t |-> "vector", v |-> b]))
    /\ UNCHANGED <<U, S, max_rank, epsilon, n_calls, A, methods>>

VectorSubtract ==
    /\ \E b \in OpsVectors :
        /\ call' = [op |-> "Vector#-", self |-> S, other |-> b]
        /\ ret' = Outcome(rb_cvector_subtract(S, [t |-> "vector", v |-> b]))
                  @@ [events |-> cvector_subtract_events(S, b)]
    /\ UNCHANGED <<U, S, max_rank, epsilon, n_calls, A, methods>>

\* The entries of a factorization the updates and projections of this
\* specification are applied to lie within [-1.0, 1.0]: U has orthonormal
\* columns, and the products formed from larger entries leave the range of
\* the fixed-point arithmetic.
SmallEntries(data) == \A x \in DOMAIN data : Abs(data[x]) <= SCALE

NextOps ==
    \/ VectorAref \/ VectorAset \/ MatrixAref \/ MatrixAset
    \/ VectorCol \/ Transpose
    \/ VectorRoundTrip \/ MatrixRoundTrip
    \/ ExtendColumn \/ VStack \/ MatrixMul
    \/ VectorDot \/ VectorSubtract
    \/ (SmallEntries(U.data) /\ SmallEntries(S.data) /\ IncrementalUpdate)
    \/ SVDecomp
    \/ (SmallEntries(U.data) /\ BatchProject)

SpecOps == InitOps /\ [][NextOps]_vars

\* --- loading the extension ---
\* Every method name one of the Init_ functions defines, and one that none
\* does.
MethodNames ==
    {e[3] : e \in Init_incremental_svd(Init_classifier_ext({}))} \cup {"magnitude"}

InitLoad ==
    /\ methods = {}
    /\ U = NoMatrix /\ S = NoVector /\ A = NoMatrix
    /\ max_rank = 0 /\ epsilon = 0 /\ n_calls = 0
    /\ call = NoCall
    /\ ret = NoRet

\* require "classifier_ext": Ruby runs Init_classifier_ext, once.
LoadExtension ==
    /\ <<"Vector", "class", "">> \notin methods
    /\ methods' = Init_classifier_ext(methods)
    /\ call' = [op |-> "require"]
    /\ ret' = [status |-> "ok"]
    /\ UNCHANGED <<U, S, max_rank, epsilon, n_calls, A>>

\* Classifier::Linalg::<class>.<name> (kind "singleton") or
\* <an instance>.<name> (kind "instance"): Ruby looks the method up.
Send ==
    /\ \E class \in {"Vector", "Matrix"}, kind \in {"singleton", "instance"},
          name \in MethodNames \ {""} :
        /\ call' = [op |-> "send", class |-> class, kind |-> kind, name |-> name]
        /\ ret' = [status |->
                     IF <<class, "class", "">> \notin methods THEN "NameError"
                     ELSE IF <<class, kind, name>> \in methods THEN "dispatched"
                     ELSE "NoMethodError"]
    /\ UNCHANGED <<U, S, max_rank, epsilon, n_calls, A, methods>>

NextLoad == LoadExtension \/ Send

SpecLoad == InitLoad /\ [][NextLoad]_vars

(***************************************************************************)
(* Properties of incremental_update, stated on the last call and what it   *)
(* did.                                                                    *)
(***************************************************************************)
Updated == call.op = "incremental_update"

\* The arguments satisfy c.size = U.rows and S.size = U.cols.
ShapesAgree == call.c.size = call.u.rows /\ call.s.size = call.u.cols

Min(a, b) == IF a <= b THEN a ELSE b

\* C1: in Case A (p_norm > epsilon) with maxRank >= 1 and k = U.cols =
\* S.size, the call returns, U' has U.rows rows and exactly
\* min(k + 1, maxRank) columns, and S' has exactly min(k + 1, maxRank)
\* entries; both buffers have exactly that many elements.
C1_CaseAShape ==
    (Updated /\ ret.branch = "A" /\ call.max_rank >= 1 /\ ShapesAgree)
    => /\ ret.status = "ok"
       /\ ret.u_out.rows = call.u.rows
       /\ ret.u_out.cols = Min(call.u.cols + 1, call.max_rank)
       /\ ret.s_out.size = Min(call.u.cols + 1, call.max_rank)
       /\ DOMAIN ret.u_out.data = 0..(ret.u_out.rows * ret.u_out.cols - 1)
       /\ DOMAIN ret.s_out.data = 0..(ret.s_out.size - 1)

\* A Case A update of a full factorization (k = maxRank) was cut back from
\* k + 1 columns to maxRank.
C1_Witness ==
    /\ Updated /\ ret.branch = "A" /\ ret.status = "ok" /\ ShapesAgree
    /\ call.max_rank >= 1
    /\ call.u.cols + 1 > call.max_rank
    /\ ret.truncated
    /\ ret.u_out.cols = call.max_rank

\* C2: in Case B (p_norm <= epsilon) the call returns (U', S') with the
\* dimensions of (U, S) and the same element at every index, whatever
\* maxRank is.
C2_CaseBCopies ==
    (Updated /\ ret.branch = "B")
    => /\ ret.status = "ok"
       /\ ret.u_out.rows = call.u.rows /\ ret.u_out.cols = call.u.cols
       /\ ret.u_out.data = call.u.data
       /\ ret.s_out.size = call.s.size
       /\ ret.s_out.data = call.s.data

\* A nonzero c = U (U^T c), residual exactly zero, with a U of more columns
\* than maxRank allows: returned as it was.
C2_Witness ==
    /\ Updated /\ ret.branch = "B" /\ ret.status = "ok"
    /\ ret.p_norm = 0
    /\ \E i \in 0..(call.c.size - 1) : call.c.data[i] # 0
    /\ call.u.cols > call.max_rank
    /\ ret.u_out.cols = call.u.cols
    /\ \E x \in DOMAIN ret.u_out.data : ret.u_out.data[x] # 0

\* C3: a c whose size differs from U.rows, smaller or larger, makes the call
\* raise the size error, having read no element of c or U outside its
\* buffer, and return nothing.
C3_SizeOfCChecked ==
    (Updated /\ call.c.size # call.u.rows)
    => /\ ret.status = "error"
       /\ ret.kind = "ArgumentError"
       /\ ret.oob = {}

\* C4: an S whose size differs from U.cols makes the call raise the size
\* error and return nothing, and the bordered matrix K is never built from
\* an S and an m_vec of different lengths.
C4_SizeOfSChecked ==
    (Updated /\ call.s.size # call.u.cols /\ call.c.size = call.u.rows)
    => /\ ret.status = "error"
       /\ ret.kind = "ArgumentError"
       /\ ~ret.k_built

\* C5: maxRank < 1 makes the call raise an error and return nothing: no
\* (U', S') of zero columns, none of more columns than maxRank.
C5_RankCapChecked ==
    (Updated /\ call.max_rank < 1 /\ ShapesAgree)
    => ret.status = "error"

\* C6 as stated: for every epsilon <= 0 and every (U, S, c), a residual
\* norm of exactly 0 included, the call takes Case A and never Case B.
C6_NonPositiveEpsilonForcesCaseA ==
    (Updated /\ call.epsilon <= 0 /\ call.c.size = call.u.rows)
    => ret.branch = "A"

\* C6 as amended: for every epsilon < 0 a residual norm that is a number,
\* exactly 0 included, takes Case A; for epsilon = 0 Case A is taken exactly
\* when p_norm > 0, a norm of exactly 0 taking Case B; a norm that is NaN
\* takes Case B.
C6_CaseAExactlyAboveEpsilon ==
    (Updated /\ call.epsilon <= 0 /\ call.c.size = call.u.rows)
    => /\ ret.branch \in {"A", "B"}
       /\ (call.epsilon < 0 /\ ~IsNaN(ret.p_norm)) => ret.branch = "A"
       /\ (call.epsilon = 0 /\ ~IsNaN(ret.p_norm))
              => (ret.branch = "A" <=> ret.p_norm > 0)
       /\ IsNaN(ret.p_norm) => ret.branch = "B"

\* A negative epsilon and a residual norm of exactly 0: Case A was taken.
C6_Witness ==
    /\ Updated /\ call.epsilon < 0 /\ call.c.size = call.u.rows
    /\ ret.p_norm = 0
    /\ ret.branch = "A"

(***************************************************************************)
(* Properties of SV_decomp (SpecSVD).                                      *)
(***************************************************************************)
Decomposed == call.op = "SV_decomp"

\* Column i of the matrix m holds only zeros.
ZeroColumn(m, i) == \A r \in 0..(m.rows - 1) : MAT_AT(m, r, i) = 0

\* C7: for every m x n input A, m < n included, the returned U has exactly
\* m rows, the row count of A.
C7_URowsMatchInput ==
    (Decomposed /\ ret.status = "ok") => ret.u.rows = call.a.rows

\* C8: for every input matrix, rank-deficient and all-zero ones included,
\* the decomposition raises no error, every returned S[i] is a number >= 0,
\* S[i] = 0 where the final Q[i][i] <= 0, and column i of the returned U is
\* all zeros wherever S[i] <= 1e-10.
C8_DegenerateInputs ==
    Decomposed
    => /\ ret.status = "ok"
       /\ \A i \in 0..(ret.s.size - 1) :
           /\ FGe(ret.s.data[i], 0)
           /\ FLe(MAT_AT(ret.q, i, i), 0) => ret.s.data[i] = 0
           /\ ~GtEpsilon(ret.s.data[i]) => ZeroColumn(ret.u, i)

\* A nonzero matrix of rank 1 with two columns: one singular value is
\* positive, the other is 0 and its column of U is zero.
C8_Witness ==
    /\ Decomposed /\ ret.status = "ok"
    /\ \E x \in DOMAIN call.a.data : call.a.data[x] # 0
    /\ \E i, j \in 0..(ret.s.size - 1) :
        /\ FLe(MAT_AT(ret.q, i, i), 0) /\ ret.s.data[i] = 0
        /\ ZeroColumn(ret.u, i) /\ ret.u.rows > 0
        /\ ret.s.data[j] > 0 /\ ~ZeroColumn(ret.u, j)

(***************************************************************************)
(* Properties of batch_project (SpecProject).                              *)
(***************************************************************************)
Projected == call.op = "batch_project"

\* Every vector of the call has U.rows entries.
SizesMatch == \A i \in 1..Len(call.vectors) : call.vectors[i].size = call.u.rows

\* The sum over the rows r < n of U[r][j] * vec[r].
RECURSIVE ColumnDot(_, _, _, _)
ColumnDot(u, vec, j, n) ==
    IF n = 0 THEN 0
    ELSE FAdd(ColumnDot(u, vec, j, n - 1),
              FMul(u.data[(n - 1) * u.cols + j], vec.data[n - 1]))

IsIdentity(u) ==
    /\ u.rows = u.cols
    /\ \A r, c \in 0..(u.rows - 1) :
           u.data[r * u.cols + c] = IF r = c THEN SCALE ELSE 0

\* C9: with every vector of size U.rows, batch_project returns one output
\* per input, in the input order; output i has U.cols entries and its j-th
\* entry is the sum over rows r of U[r][j] * vectors[i][r]; with U the
\* identity each output equals its input.
C9_ProjectsEachVector ==
    (Projected /\ SizesMatch)
    => /\ ret.status = "ok"
       /\ Len(ret.value) = Len(call.vectors)
       /\ \A i \in 1..Len(call.vectors) :
           /\ ret.value[i].size = call.u.cols
           /\ DOMAIN ret.value[i].data = 0..(call.u.cols - 1)
           /\ \A j \in 0..(call.u.cols - 1) :
                  ret.value[i].data[j]
                      = ColumnDot(call.u, call.vectors[i], j, call.u.rows)
           /\ IsIdentity(call.u) => ret.value[i].data = call.vectors[i].data

\* Two different vectors projected by a U that is not the identity and has
\* more than one column: two different outputs, in the order given.
C9_Witness ==
    /\ Projected /\ SizesMatch /\ ret.status = "ok"
    /\ Len(call.vectors) = 2
    /\ call.vectors[1] # call.vectors[2]
    /\ ~IsIdentity(call.u) /\ call.u.cols >= 2
    /\ ret.value[1] # ret.value[2]
    /\ ret.value[1].data # call.vectors[1].data

\* C10: if any vector, at any position of the list, has a size other than
\* U.rows, batch_project raises the size error and the caller receives no
\* projected vector, not even those of the vectors before it.
C10_MismatchRaises ==
    (Projected /\ ~SizesMatch)
    => /\ ret.status = "error"
       /\ ret.kind = "ArgumentError"
       /\ ret.value = <<>>

\* The vector of the wrong size came second, after one that was projected.
C10_Witness ==
    /\ Projected /\ ret.status = "error"
    /\ Len(call.vectors) = 2
    /\ call.vectors[1].size = call.u.rows /\ call.u.cols > 0
    /\ call.vectors[2].size # call.u.rows

(***************************************************************************)
(* Properties of loading the extension (SpecLoad).                         *)
(***************************************************************************)
Loaded == <<"Vector", "class", "">> \in methods

\* The entry points of the incremental engine: Matrix.extend_column,
\* Matrix.vstack, Matrix#batch_project, Matrix#incremental_svd_update and
\* Vector#-.
IncrementalEntryPoints ==
    {<<"Matrix", "singleton", "extend_column">>, <<"Matrix", "singleton", "vstack">>,
     <<"Matrix", "instance", "batch_project">>,
     <<"Matrix", "instance", "incremental_svd_update">>,
     <<"Vector", "instance", "-">>}

\* C11: once Init_classifier_ext has run, every entry point is defined on
\* Vector and Matrix, those of the incremental engine included.
C11_EntryPointsDefined ==
    Loaded => /\ Init_svd(Init_matrix(Init_vector({}))) \subseteq methods
              /\ IncrementalEntryPoints \subseteq methods


\* C13: the to_sequence/from_sequence round trip is lossless.  A Vector
\* rebuilt from its sequence form has the size, the elements and the
\* orientation it had; a Matrix, a single row, zero rows or zero columns
\* included, is rebuilt without an error and has the rows, cols and elements
\* it had.
C13_RoundTripLossless ==
    /\ call.op = "Vector round trip" =>
        /\ ret.status = "ok"
        /\ ret.val.size = call.self.size
        /\ ret.val.data = call.self.data
        /\ ret.val.is_col = call.self.is_col
    /\ call.op = "Matrix round trip" =>
        /\ ret.status = "ok"
        /\ ret.val.rows = call.self.rows
        /\ ret.val.cols = call.self.cols
        /\ ret.val.data = call.self.data

\* C14: extend_column(M, v) with v.size = M.rows returns a matrix R of
\* M.rows rows and M.cols + 1 columns with R[i][j] = M[i][j] for j < M.cols
\* and R[i][M.cols] = v[i]; with any other size it fails with
\* DimensionMismatch (ArgumentError) and returns no matrix.
C14_ExtendColumn ==
    call.op = "extend_column" =>
        IF call.col.size = call.m.rows
        THEN /\ ret.status = "ok"
             /\ ret.val.rows = call.m.rows
             /\ ret.val.cols = call.m.cols + 1
             /\ DOMAIN ret.val.data = 0..(call.m.rows * (call.m.cols + 1) - 1)
             /\ \A i \in 0..(call.m.rows - 1) :
                 /\ \A j \in 0..(call.m.cols - 1) :
                        MAT_AT(ret.val, i, j) = MAT_AT(call.m, i, j)
                 /\ MAT_AT(ret.val, i, call.m.cols) = call.col.data[i]
        ELSE /\ ret.status = "error"
             /\ ret.kind = "ArgumentError"
             /\ ret.val = NoMatrix

\* [[1, 2], [3, 4]] extended with [5, 6] is [[1, 2, 5], [3, 4, 6]].
C14_Witness ==
    /\ call.op = "extend_column"
    /\ call.m = Mat(2, 2, <<SCALE, 2 * SCALE, 3 * SCALE, 4 * SCALE>>)
    /\ call.col = Vec(<<5 * SCALE, 6 * SCALE>>)
    /\ ret.status = "ok"
    /\ ret.val = Mat(2, 3, <<SCALE, 2 * SCALE, 5 * SCALE,
                             3 * SCALE, 4 * SCALE, 6 * SCALE>>)

\* C15: dot and subtract on two vectors of different sizes fail with
\* DimensionMismatch (ArgumentError), the message naming both sizes, and
\* produce no result; on two vectors of one size they never fail.
C15_SizeMismatchNamesBothSizes ==
    call.op \in {"Vector#*", "Vector#-"} =>
        IF call.self.size # call.other.size
        THEN /\ ret.status = "error"
             /\ ret.kind = "ArgumentError"
             /\ ret.args = <<call.self.size, call.other.size>>
             /\ ret.val = NoMatrix
        ELSE ret.status = "ok"

\* The element index i addresses in a dimension of size n, or -1 if none.
Addressed(i, n) ==
    IF 0 <= i /\ i < n THEN i
    ELSE IF -n <= i /\ i < 0 THEN i + n
    ELSE -1

\* data, with the element at x replaced by val.
WithElement(data, x, val) == [y \in DOMAIN data |-> IF y = x THEN val ELSE data[y]]

\* C16: indexed get and set on a Vector of size n, and per coordinate on a
\* Matrix: an index i with 0 <= i < n addresses element i, one with
\* -n <= i < 0 addresses element i + n, every other index (every index when
\* n = 0) fails with IndexOutOfBounds (IndexError) and changes nothing.  A
\* successful set changes the addressed element and nothing else.
C16_IndexedAccess ==
    /\ call.op = "Vector#[]" =>
        IF Addressed(call.idx, call.self.size) >= 0
        THEN /\ ret.status = "ok"
             /\ ret.val = call.self.data[Addressed(call.idx, call.self.size)]
        ELSE ret.status = "error" /\ ret.kind = "IndexError"
    /\ call.op = "Vector#[]=" =>
        IF Addressed(call.idx, call.self.size) >= 0
        THEN /\ ret.status = "ok"
             /\ S = [call.self EXCEPT !.data =
                        WithElement(call.self.data,
                                    Addressed(call.idx, call.self.size), call.val)]
        ELSE ret.status = "error" /\ ret.kind = "IndexError" /\ S = call.self
    /\ call.op = "Matrix#[]" =>
        IF Addressed(call.row, call.self.rows) >= 0
           /\ Addressed(call.col, call.self.cols) >= 0
        THEN /\ ret.status = "ok"
             /\ ret.val = MAT_AT(call.self, Addressed(call.row, call.self.rows),
                                 Addressed(call.col, call.self.cols))
        ELSE ret.status = "error" /\ ret.kind = "IndexError"
    /\ call.op = "Matrix#[]=" =>
        IF Addressed(call.row, call.self.rows) >= 0
           /\ Addressed(call.col, call.self.cols) >= 0
        THEN /\ ret.status = "ok"
             /\ U = [call.self EXCEPT !.data =
                        WithElement(call.self.data,
                            Addressed(call.row, call.self.rows) * call.self.cols
                            + Addressed(call.col, call.self.cols), call.val)]
        ELSE ret.status = "error" /\ ret.kind = "IndexError" /\ U = call.self

\* A set through a negative index: s[-1] = 9.0 on a vector of size 2.
C16_Witness ==
    /\ call.op = "Vector#[]="
    /\ call.self.size = 2
    /\ call.idx = -1
    /\ ret.status = "ok"
    /\ S.data[1] = 9 * SCALE
    /\ S.data[0] = call.self.data[0]

\* C17: in a chain of incremental_update calls, each on the (U', S') the
\* previous one returned, with one maxRank >= 1, any epsilon and new vectors
\* of size U.rows, starting from U.cols = S.size <= maxRank: every call
\* returns with U'.cols = S'.size, U'.rows = U.rows and U'.cols <= maxRank,
\* and the rank neither decreases nor grows by more than 1.  Stated for one
\* call of the chain; the call re-establishes what the next one starts from.
C17_ChainKeepsFactorization ==
    [][(/\ call'.op = "incremental_update"
        /\ n_calls' = n_calls + 1
        /\ max_rank >= 1
        /\ U.cols = S.size /\ U.cols <= max_rank
        /\ call'.c.size = U.rows)
       => (/\ ret'.status = "ok"
           /\ call'.u = U /\ call'.s = S
           /\ U' = ret'.u_out /\ S' = ret'.s_out
           /\ U'.cols = S'.size
           /\ U'.rows = U.rows
           /\ U'.cols <= max_rank
           /\ U'.cols >= U.cols
           /\ U'.cols <= U.cols + 1
           /\ max_rank' = max_rank)]_vars

\* The second call of a chain that started from k = 0 with maxRank = 2: the
\* rank went from 0 to 1 to 2.
C17_Witness ==
    /\ Updated /\ n_calls = 2 /\ ret.status = "ok"
    /\ call.max_rank = 2 /\ ShapesAgree
    /\ call.u.cols = 1 /\ call.u.data = (0 :> SCALE @@ 1 :> 0)
    /\ U.cols = 2 /\ S.size = 2 /\ U.rows = 2

\* C18: when Case A produces k + 1 > maxRank columns, the truncation keeps
\* position: with U_new = [U | p_hat] U' and S' from the Jacobi solve on K
\* (ret.grown), U_out[i][j] = U_new[i][j] and S_out[j] = S'[j] for every row
\* i and every j < maxRank.  Nothing is reordered or chosen by magnitude.
C18_TruncationKeepsOrder ==
    (/\ Updated /\ ret.branch = "A" /\ ret.status = "ok"
     /\ ret.grown[2].size > call.max_rank)
    => \A j \in 0..(call.max_rank - 1) :
        /\ ret.s_out.data[j] = ret.grown[2].data[j]
        /\ \A i \in 0..(call.u.rows - 1) :
            MAT_AT(ret.u_out, i, j) = MAT_AT(ret.grown[1], i, j)

\* A truncation from two columns to one that drops the larger singular
\* value and keeps the smaller one.
C18_Witness ==
    /\ Updated /\ ret.branch = "A" /\ ret.status = "ok" /\ ret.truncated
    /\ call.max_rank = 1 /\ ShapesAgree
    /\ ret.grown[2].size = 2 /\ ret.s_out.size = 1
    /\ FGt(ret.grown[2].data[1], ret.s_out.data[0])

\* pairs lists each (p, r) with 0 <= p < r < s once, in row-major order.
RowMajorPairs(pairs, s) ==
    /\ Len(pairs) = (s * (s - 1)) \div 2
    /\ \A k \in 1..Len(pairs) :
        /\ 0 <= pairs[k][1] /\ pairs[k][1] < pairs[k][2] /\ pairs[k][2] < s
        /\ \A l \in (k + 1)..Len(pairs) :
            \/ pairs[k][1] < pairs[l][1]
            \/ pairs[k][1] = pairs[l][1] /\ pairs[k][2] < pairs[l][2]

\* C19: for every input matrix, with s = min(rows, cols), s = 0 and s = 1
\* included and the loop counters unsigned: the solver runs at most 20
\* sweeps and returns; each sweep makes one rotation step for each pair
\* (p, r), 0 <= p < r < s, in row-major order, s(s-1)/2 steps, and its loops
\* do not iterate at all when s <= 1.
C19_SweepsVisitEachPairOnce ==
    call.op = "SV_decomp" =>
        /\ ret.status = "ok"
        /\ Len(ret.log) <= SVD_MAX_SWEEPS
        /\ \A t \in 1..Len(ret.log) :
            /\ RowMajorPairs(ret.log[t].pairs, Min(call.a.rows, call.a.cols))
            /\ Min(call.a.rows, call.a.cols) <= 1 => ret.log[t].outer = 0

\* The differences |after[i] - before[i]| above 0.001, for i < n, added up
\* in the order of i.
RECURSIVE SumOfLargeChanges(_, _, _)
SumOfLargeChanges(before, after, n) ==
    IF n = 0 THEN 0
    ELSE FAdd(SumOfLargeChanges(before, after, n - 1),
              IF FGt(FAbs(FSub(after[n - 1], before[n - 1])), SCALE \div 1000)
              THEN FAbs(FSub(after[n - 1], before[n - 1]))
              ELSE 0)

\* C20: the solver does not stop after the first sweep: sweep 1 makes no
\* check and at least 2 sweeps run.  After each sweep t >= 2 it compares
\* the diagonal of Q with the diagonal as it was after sweep t - 1, adds up
\* the absolute differences that exceed 0.001, and sweep t is the last one
\* exactly when that sum is <= 0.001 or t is the maximum; the sum is
\* <= 0.001 exactly when no diagonal entry changed by more than 0.001
\* during sweep t.
C20_ConvergenceCheck ==
    (call.op = "SV_decomp" /\ ret.status = "ok") =>
        /\ Len(ret.log) >= 2
        /\ ~ret.log[1].checked
        /\ \A t \in 2..Len(ret.log) :
            /\ ret.log[t].checked
            /\ ret.log[t].before = ret.log[t - 1].after
            /\ ret.log[t].sum_diff =
                   SumOfLargeChanges(ret.log[t].before, ret.log[t].after,
                                     Min(call.a.rows, call.a.cols))
            /\ (t = Len(ret.log)) <=>
                   (\/ FLe(ret.log[t].sum_diff, SCALE \div 1000)
                    \/ t = SVD_MAX_SWEEPS)
            /\ FLe(ret.log[t].sum_diff, SCALE \div 1000) <=>
                   \A i \in 0..(Min(call.a.rows, call.a.cols) - 1) :
                       ~FGt(FAbs(FSub(ret.log[t].after[i], ret.log[t].before[i])),
                            SCALE \div 1000)

\* A solve that goes on after the second sweep: the diagonal after the
\* second sweep is not the one after the first, and the third sweep is
\* compared with the second.
C20_Witness ==
    /\ call.op = "SV_decomp" /\ ret.status = "ok"
    /\ Len(ret.log) >= 3
    /\ ret.log[1].after # ret.log[2].after
    /\ ret.log[3].before = ret.log[2].after
    /\ FGt(ret.log[2].sum_diff, SCALE \div 1000)

\* The operations that are not an indexed set and take a Vector or Matrix.
FrameOps ==
    {"incremental_update", "batch_project", "SV_decomp", "extend_column",
     "vstack", "Matrix#trans", "Matrix#*", "Vector#-"}

\* C12: no operation other than the indexed set modifies an operand, and
\* what it returns shares no storage with an operand.  In the effects of
\* incremental_update (Case A with and without truncation, Case B),
\* batch_project, the Jacobi decomposition, extend_column, vstack,
\* transpose, multiply and subtract, every buffer written, freed or
\* returned is one the call allocated itself before, a returned buffer has
\* not been freed, and the call returns normally exactly when it did not
\* raise.
C12_OperandsUntouched ==
    (call.op \in FrameOps /\ ret.status \in {"ok", "error"}) =>
        /\ \A k \in 1..Len(ret.events) :
            /\ ret.events[k][1] \in {"write", "free", "return"} =>
                   \E j \in 1..(k - 1) :
                       ret.events[j] = <<"alloc", ret.events[k][2], ret.events[k][3]>>
            /\ ret.events[k][1] = "return" =>
                   \A j \in 1..Len(ret.events) :
                       ret.events[j] # <<"free", ret.events[k][2], ret.events[k][3]>>
        /\ (ret.status = "ok") <=>
               (\A k \in 1..Len(ret.events) : ret.events[k][1] # "raise")

\* A Case A update that truncated and returned the two truncated copies.
C12_Witness ==
    /\ Updated /\ ret.status = "ok" /\ ret.branch = "A" /\ ret.truncated
    /\ \E k \in 1..Len(ret.events) : ret.events[k] = <<"return", "u_trunc", 0>>
    /\ \E k \in 1..Len(ret.events) : ret.events[k] = <<"free", "u_new", 0>>

\* The buffers a sequence of effects allocates, each as <<name, index>>.
AllocatedIn(events) ==
    {<<events[k][2], events[k][3]>> :
        k \in {j \in 1..Len(events) : events[j][1] = "alloc"}}

\* The call handed buffer b back: it returned it and left without raising.
HandedBack(events, b) ==
    /\ \A k \in 1..Len(events) : events[k][1] # "raise"
    /\ \E k \in 1..Len(events) : events[k] = <<"return", b[1], b[2]>>

\* C21: every buffer allocated inside incremental_update and cbatch_project
\* that is not handed back to the caller is freed exactly once before
\* control leaves the function, on the normal returns of Case A (with and
\* without truncation) and Case B and on the exit by a raised dimension
\* error alike; no buffer is freed twice or touched after it was freed, and
\* a buffer handed back is never freed.
C21_BuffersReleasedOnce ==
    (call.op \in {"incremental_update", "batch_project"}
     /\ ret.status \in {"ok", "error"}) =>
        \A b \in AllocatedIn(ret.events) :
            LET frees == {k \in 1..Len(ret.events) :
                             ret.events[k] = <<"free", b[1], b[2]>>}
            IN /\ Cardinality(frees) = IF HandedBack(ret.events, b) THEN 0 ELSE 1
               /\ \A f \in frees : \A k \in (f + 1)..Len(ret.events) :
                      <<ret.events[k][2], ret.events[k][3]>> # b
====
